---- MODULE Spec2Model ----
(***************************************************************************)
(* Model of scripts/ward_map.py: a one-pass pipeline that loads a ward     *)
(* shapefile, cleans two attributes, splits the wards into Block 6 and the *)
(* rest, normalises the CRS, renders a folium map and exports Block 6.     *)
(*                                                                         *)
(* A cell value is a record [k, n, s]: k is the Python kind ("int",        *)
(* "float", "str", "None", "NaN"), n the number (a float is kept in        *)
(* tenths: 4297 is 429.7) and s the characters of a string.  A collection  *)
(* (GeoDataFrame) is [rows, cols, crs]; a row is [idx, attrs, geom] with   *)
(* idx the pandas index label, attrs the cells in column order, each a     *)
(* [name, v] pair (pandas allows two columns with one label), and geom one *)
(* coordinate pair <<x, y>> standing for the polygon (it is its own        *)
(* centroid).  cols is the sequence of column labels.  A character of a    *)
(* string is a one-character string, or its code point's name ("U+0664").  *)
(***************************************************************************)
EXTENDS Integers, Sequences, FiniteSets, TLC

VARIABLES
    shp,         \* the input shapefile on disk
    pc,          \* the next statement block of the script, "done" or "failed"
    fault,       \* the uncaught exception that ended the run, "" if none
    gdf,         \* the collection as read (line 11)
    gdf_clean,   \* the cleaned full collection
    block6_gdf,  \* the highlighted subset
    other_gdf,   \* the context subset
    m,           \* the folium map: location, the two layers, the labels
    fs,          \* the three output files' contents
    written,     \* the output files written so far, in order
    steps        \* the statement blocks executed so far, in order

vars == <<shp, pc, fault, gdf, gdf_clean, block6_gdf, other_gdf, m, fs, written, steps>>

\* Largest number of wards in an input shapefile (it holds at least one).
MaxLen == 3

----------------------------------------------------------------------------
\* Cell values

IntV(i) == [k |-> "int", n |-> i, s |-> <<>>]
FloatV(t) == [k |-> "float", n |-> t, s |-> <<>>]
StrV(cs) == [k |-> "str", n |-> 0, s |-> cs]
NoneV == [k |-> "None", n |-> 0, s |-> <<>>]
NaNV == [k |-> "NaN", n |-> 0, s |-> <<>>]

IsNull(v) == v.k \in {"None", "NaN"}

\* The decimal digits int() reads: the ASCII ones and, standing for the other
\* Unicode decimal digits, the Arabic-Indic ones U+0660..U+0669.
Digits == <<"0", "1", "2", "3", "4", "5", "6", "7", "8", "9">>

ArabicIndicDigits == <<"U+0660", "U+0661", "U+0662", "U+0663", "U+0664",
                       "U+0665", "U+0666", "U+0667", "U+0668", "U+0669">>

IsDigit(c) == \E d \in 1..10 : Digits[d] = c \/ ArabicIndicDigits[d] = c

DigitVal(c) == (CHOOSE d \in 1..10 : Digits[d] = c \/ ArabicIndicDigits[d] = c) - 1

\* The characters int() strips from both ends (U+00A0 stands for the
\* non-ASCII spaces).
Whitespace == {" ", "\t", "\n", "\r", "\f", "U+000B", "U+00A0"}

RECURSIVE LStrip(_)
LStrip(cs) == IF cs # <<>> /\ Head(cs) \in Whitespace THEN LStrip(Tail(cs)) ELSE cs

RECURSIVE RStrip(_)
RStrip(cs) ==
    IF cs # <<>> /\ cs[Len(cs)] \in Whitespace
    THEN RStrip(SubSeq(cs, 1, Len(cs) - 1)) ELSE cs

Strip(cs) == RStrip(LStrip(cs))

\* The value of a digit string; the underscores between digits are skipped.
RECURSIVE DigitsVal(_, _)
DigitsVal(cs, acc) ==
    IF cs = <<>> THEN acc
    ELSE IF Head(cs) = "_" THEN DigitsVal(Tail(cs), acc)
    ELSE DigitsVal(Tail(cs), acc * 10 + DigitVal(Head(cs)))

\* The stripped string without its optional sign.
Unsigned(cs) ==
    IF Strip(cs) # <<>> /\ Head(Strip(cs)) \in {"-", "+"}
    THEN Tail(Strip(cs)) ELSE Strip(cs)

\* int() of a string's characters accepts: blanks, an optional sign, then
\* digits with single underscores between them, then blanks.
StrIsInt(cs) ==
    LET ds == Unsigned(cs) IN
    /\ ds # <<>>
    /\ \A i \in 1..Len(ds) :
        \/ IsDigit(ds[i])
        \/ /\ ds[i] = "_"
           /\ 1 < i
           /\ i < Len(ds)
           /\ IsDigit(ds[i - 1])
           /\ IsDigit(ds[i + 1])

StrToInt(cs) ==
    IF Strip(cs) # <<>> /\ Head(Strip(cs)) = "-" THEN 0 - DigitsVal(Unsigned(cs), 0)
    ELSE DigitsVal(Unsigned(cs), 0)

\* A float (in tenths) truncated toward zero.
Trunc(t) == IF t >= 0 THEN t \div 10 ELSE 0 - ((0 - t) \div 10)

\* Whether astype(int) / int() accepts the value.
CanInt(v) ==
    CASE v.k = "int" -> TRUE
      [] v.k = "float" -> TRUE
      [] v.k = "str" -> StrIsInt(v.s)
      [] OTHER -> FALSE

\* The integer astype(int) / int() yields for an accepted value.
ToInt(v) ==
    CASE v.k = "int" -> v.n
      [] v.k = "float" -> Trunc(v.n)
      [] v.k = "str" -> StrToInt(v.s)
      [] OTHER -> 0

----------------------------------------------------------------------------
\* Coordinate reference systems

CRSs == {"none", "EPSG:4326", "EPSG:3857", "custom"}

WGS84 == 4326

\* crs.to_epsg(): the EPSG code, 0 for a CRS that has none.
to_epsg(crs) ==
    CASE crs = "EPSG:4326" -> WGS84
      [] crs = "EPSG:3857" -> 3857
      [] OTHER -> 0

\* Coordinates of the geographic point g in the given CRS.  The projections
\* are stood in for by invertible integer maps; EPSG:4326 is the identity.
Forward(crs, g) ==
    CASE crs = "EPSG:3857" -> <<3 * g[1], 3 * g[2] + 1>>
      [] crs = "custom" -> <<g[1] + 5, g[2] - 2>>
      [] OTHER -> g

\* The geographic point whose coordinates in the given CRS are c.
Inverse(crs, c) ==
    CASE crs = "EPSG:3857" -> <<c[1] \div 3, (c[2] - 1) \div 3>>
      [] crs = "custom" -> <<c[1] - 5, c[2] + 2>>
      [] OTHER -> c

EpsgName(code) == IF code = WGS84 THEN "EPSG:4326" ELSE "EPSG:3857"

\* to_crs that transforms the coordinates and leaves the CRS tag as it was.
to_crs_KeepTag(coll, code) ==
    [coll EXCEPT
        !.rows = [i \in 1..Len(coll.rows) |->
                    [coll.rows[i] EXCEPT
                        !.geom = Forward(EpsgName(code), Inverse(coll.crs, @))]]]

\* GeoDataFrame.to_crs(epsg=code) of a collection whose CRS is defined.
to_crs(coll, code) ==
    [coll EXCEPT
        !.rows = [i \in 1..Len(coll.rows) |->
                    [coll.rows[i] EXCEPT
                        !.geom = Forward(EpsgName(code), Inverse(coll.crs, @))]],
        !.crs = EpsgName(code)]

----------------------------------------------------------------------------
\* Inputs

NoColl == [rows |-> <<>>, cols |-> <<>>, crs |-> "none"]

NoMap == [location |-> <<>>, other |-> <<>>, block6 |-> <<>>, labels |-> <<>>]

NoFile == [crs |-> "none", features |-> <<>>]

NoFiles == [map |-> NoMap, geojson |-> NoFile, shp |-> NoFile]

\* The ward identifiers a shapefile column of each type may hold: the
\* strings are " 43_4" followed by a newline, 431 in Arabic-Indic digits,
\* and "ab".
WardVals(dtype) ==
    CASE dtype = "int" -> {IntV(7), IntV(429), IntV(434)}
      [] dtype = "float" -> {FloatV(75), FloatV(4297), NaNV}
      [] OTHER -> {StrV(<<" ", "4", "3", "_", "4", "\n">>),
                   StrV(<<"U+0664", "U+0663", "U+0661">>),
                   StrV(<<"a", "b">>), NoneV}

PopVals == {FloatV(12005), NaNV}

\* What a 'Population' column already in the file holds.
OldPopulation == FloatV(9990)

\* The population columns a file may have, in file order.
PopColumns == {<<>>, <<"SUM_Final_">>, <<"Population">>, <<"Population", "SUM_Final_">>}

\* The geographic position of the i-th ward of the file.
Place(i) == <<10 * i, 20 * i>>

Columns(withWard, popcols) == (IF withWard THEN <<"Ward_No">> ELSE <<>>) \o popcols

InputRow(i, w, p, cols, crs) ==
    [idx |-> i - 1,
     attrs |-> [j \in 1..Len(cols) |->
                 [name |-> cols[j],
                  v |-> CASE cols[j] = "Ward_No" -> w
                          [] cols[j] = "SUM_Final_" -> p
                          [] OTHER -> OldPopulation]],
     geom |-> Forward(crs, Place(i))]

\* The shapefile with the given columns, wards, 'SUM_Final_' values and CRS.
Shapefile(n, withWard, ws, popcols, ps, crs) ==
    [rows |-> [i \in 1..n |-> InputRow(i, ws[i], ps[i], Columns(withWard, popcols), crs)],
     cols |-> Columns(withWard, popcols),
     crs |-> crs]

----------------------------------------------------------------------------
\* Columns

\* name in gdf.columns.
HasColumn(coll, name) == \E j \in 1..Len(coll.cols) : coll.cols[j] = name

\* gdf.columns.is_unique.
ColumnsUnique(coll) ==
    \A i \in 1..Len(coll.cols) : \A j \in 1..Len(coll.cols) :
        coll.cols[i] = coll.cols[j] => i = j

\* row[name]: the cell under the (first) column of that label.
Attr(row, name) ==
    row.attrs[CHOOSE j \in 1..Len(row.attrs) :
                /\ row.attrs[j].name = name
                /\ \A h \in 1..(j - 1) : row.attrs[h].name # name].v

----------------------------------------------------------------------------

\* DataFrame column conversion: gdf[col] = gdf[col].astype(int).
astype_int(coll, col) ==
    [coll EXCEPT
        !.rows = [i \in 1..Len(coll.rows) |->
                    [coll.rows[i] EXCEPT
                        !.attrs = [j \in 1..Len(@) |->
                                     IF @[j].name = col
                                     THEN [name |-> col, v |-> IntV(ToInt(@[j].v))]
                                     ELSE @[j]]]]]

\* A conversion that coerces what it cannot convert and never raises.
astype_int_error_Coerce(coll, col) == ""

\* The exception astype(int) raises on the column, "" if it raises none:
\* TypeError for None, ValueError for NaN or a string that is no integer.
astype_int_error(coll, col) ==
    IF \A i \in 1..Len(coll.rows) : CanInt(Attr(coll.rows[i], col)) THEN ""
    ELSE LET first == CHOOSE i \in 1..Len(coll.rows) :
                        /\ ~CanInt(Attr(coll.rows[i], col))
                        /\ \A j \in 1..(i - 1) : CanInt(Attr(coll.rows[j], col))
         IN IF Attr(coll.rows[first], col).k = "None" THEN "TypeError" ELSE "ValueError"

\* gdf.rename(columns={old: new}): the label changes in place; a column
\* already labelled new stays, so the label may then occur twice.
rename(coll, old, new) ==
    [coll EXCEPT
        !.cols = [j \in 1..Len(@) |-> IF @[j] = old THEN new ELSE @[j]],
        !.rows = [i \in 1..Len(coll.rows) |->
                    [coll.rows[i] EXCEPT
                        !.attrs = [j \in 1..Len(@) |->
                                     IF @[j].name = old
                                     THEN [name |-> new, v |-> @[j].v]
                                     ELSE @[j]]]]]

\* The fallback left out: the column is not created.
assign_none_Skipped(coll, col) == coll

\* gdf[col] = None: an existing column is overwritten, a new one appended.
assign_none(coll, col) ==
    IF HasColumn(coll, col)
    THEN [coll EXCEPT
            !.rows = [i \in 1..Len(coll.rows) |->
                        [coll.rows[i] EXCEPT
                            !.attrs = [j \in 1..Len(@) |->
                                         IF @[j].name = col
                                         THEN [name |-> col, v |-> NoneV]
                                         ELSE @[j]]]]]
    ELSE [coll EXCEPT
            !.cols = Append(@, col),
            !.rows = [i \in 1..Len(coll.rows) |->
                        [coll.rows[i] EXCEPT
                            !.attrs = Append(@, [name |-> col, v |-> NoneV])]]]

\* The population column: renamed if present, else created null.
CleanPopulation(coll) ==
    IF HasColumn(coll, "SUM_Final_")
    THEN rename(coll, "SUM_Final_", "Population")
    ELSE assign_none(coll, "Population")

block6_wards == <<429, 430, 431, 432, 433, 434>>

\* A membership test that misses the last value of the list.
isin_DropLast(v, values) == \E j \in 1..(Len(values) - 1) : v = IntV(values[j])

\* Series.isin(values) for one cell.
isin(v, values) == \E j \in 1..Len(values) : v = IntV(values[j])

InBlock6(row) == isin(Attr(row, "Ward_No"), block6_wards)

\* The complement taken against a list that starts one ward late.
NotInBlock6_OffByOne(row) ==
    ~(\E w \in 430..434 : Attr(row, "Ward_No") = IntV(w))

NotInBlock6(row) == ~InBlock6(row)

\* The highlighted rows in reverse order.
Block6Rows_Reversed(rows) ==
    [i \in 1..Len(SelectSeq(rows, InBlock6)) |->
        SelectSeq(rows, InBlock6)[Len(SelectSeq(rows, InBlock6)) + 1 - i]]

\* Boolean-mask indexing gdf[mask].copy(): the rows the test keeps, in order.
Block6Rows(rows) == SelectSeq(rows, InBlock6)

OtherRows(rows) == SelectSeq(rows, NotInBlock6)

\* The guard of the ENSURE WGS84 block.
NeedsReprojection(coll) == coll.crs = "none" \/ to_epsg(coll.crs) # WGS84

\* The ENSURE WGS84 block applied to the three collections (CRS defined).
Projector(colls) ==
    IF NeedsReprojection(colls[1])
    THEN <<to_crs(colls[1], WGS84), to_crs(colls[2], WGS84), to_crs(colls[3], WGS84)>>
    ELSE colls

\* GeoDataFrame.to_json() / to_file(): one feature per row, nulls as JSON null.
NullV == [k |-> "null", n |-> 0, s |-> <<>>]

JsonV(v) == IF IsNull(v) THEN NullV ELSE v

\* The features of a collection whose column labels are unique; properties
\* are [name, v] pairs in column order.
Features(coll) ==
    [i \in 1..Len(coll.rows) |->
        [properties |-> [j \in 1..Len(coll.rows[i].attrs) |->
                           [name |-> coll.rows[i].attrs[j].name,
                            v |-> JsonV(coll.rows[i].attrs[j].v)]],
         geometry |-> coll.rows[i].geom]]

to_file(coll) == [crs |-> coll.crs, features |-> Features(coll)]

RECURSIVE SumCoord(_, _)
SumCoord(rows, k) ==
    IF rows = <<>> THEN 0 ELSE Head(rows).geom[k] + SumCoord(Tail(rows), k)

\* The centroid of the union of the geometries, as <<sum x, sum y, count>>.
UnionCentroid(coll) ==
    <<SumCoord(coll.rows, 1), SumCoord(coll.rows, 2), Len(coll.rows)>>

\* Labels that show the row's index label instead of its ward identifier.
Labels_Index(coll) ==
    [i \in 1..Len(coll.rows) |->
        [at |-> <<coll.rows[i].geom[2], coll.rows[i].geom[1]>>,
         text |-> coll.rows[i].idx]]

\* One marker per row of the collection: position [y, x] and the label text.
Labels(coll) ==
    [i \in 1..Len(coll.rows) |->
        [at |-> <<coll.rows[i].geom[2], coll.rows[i].geom[1]>>,
         text |-> ToInt(Attr(coll.rows[i], "Ward_No"))]]

\* GeoJsonTooltip's check at render time: every field is a property.
TooltipFieldsOk(features, fields) ==
    \/ features = <<>>
    \/ fields \subseteq {features[1].properties[j].name :
                            j \in 1..Len(features[1].properties)}

----------------------------------------------------------------------------

Init ==
    /\ \E n \in 1..MaxLen, crs \in CRSs, dtype \in {"int", "float", "str"},
          withWard \in BOOLEAN, popcols \in PopColumns :
        \E ws \in IF withWard THEN [1..n -> WardVals(dtype)]
                  ELSE {[i \in 1..n |-> NoneV]},
           ps \in IF \E j \in 1..Len(popcols) : popcols[j] = "SUM_Final_"
                  THEN [1..n -> PopVals] ELSE {[i \in 1..n |-> NaNV]} :
            shp = Shapefile(n, withWard, ws, popcols, ps, crs)
    /\ pc = "load"
    /\ fault = ""
    /\ gdf = NoColl
    /\ gdf_clean = NoColl
    /\ block6_gdf = NoColl
    /\ other_gdf = NoColl
    /\ m = NoMap
    /\ fs = NoFiles
    /\ written = <<>>
    /\ steps = <<>>

\* An uncaught exception: the interpreter exits, nothing else changes.
Raise(step, exc) ==
    /\ pc' = "failed"
    /\ fault' = exc
    /\ steps' = Append(steps, step)

\* Lines 11-14: read the shapefile (it may be missing or unreadable).
Load ==
    /\ pc = "load"
    /\ \E readable \in BOOLEAN :
        IF readable
        THEN /\ gdf' = shp
             /\ pc' = "clean"
             /\ steps' = Append(steps, "load")
             /\ UNCHANGED fault
        ELSE /\ Raise("load", "DataSourceError")
             /\ UNCHANGED gdf
    /\ UNCHANGED <<shp, gdf_clean, block6_gdf, other_gdf, m, fs, written>>

\* Lines 17-26: the copy, integer ward identifiers (KeyError without the
\* column) and the canonical population column.
Clean ==
    /\ pc = "clean"
    /\ IF ~HasColumn(gdf, "Ward_No")
       THEN /\ Raise("clean", "KeyError")
            /\ gdf_clean' = gdf
       ELSE IF astype_int_error(gdf, "Ward_No") # ""
       THEN /\ Raise("clean", astype_int_error(gdf, "Ward_No"))
            /\ gdf_clean' = gdf
       ELSE /\ gdf_clean' = CleanPopulation(astype_int(gdf, "Ward_No"))
            /\ pc' = "partition"
            /\ steps' = Append(steps, "clean")
            /\ UNCHANGED fault
    /\ UNCHANGED <<shp, gdf, block6_gdf, other_gdf, m, fs, written>>

\* Lines 30-35: the two subsets.
Partition ==
    /\ pc = "partition"
    /\ block6_gdf' = [gdf_clean EXCEPT !.rows = Block6Rows(@)]
    /\ other_gdf' = [gdf_clean EXCEPT !.rows = OtherRows(@)]
    /\ pc' = "project"
    /\ steps' = Append(steps, "partition")
    /\ UNCHANGED <<shp, fault, gdf, gdf_clean, m, fs, written>>

\* Lines 38-41: to_crs raises on a collection that has no CRS.
Project ==
    /\ pc = "project"
    /\ IF NeedsReprojection(gdf_clean) /\ gdf_clean.crs = "none"
       THEN /\ Raise("project", "ValueError")
            /\ UNCHANGED <<gdf_clean, block6_gdf, other_gdf>>
       ELSE /\ gdf_clean' = Projector(<<gdf_clean, block6_gdf, other_gdf>>)[1]
            /\ block6_gdf' = Projector(<<gdf_clean, block6_gdf, other_gdf>>)[2]
            /\ other_gdf' = Projector(<<gdf_clean, block6_gdf, other_gdf>>)[3]
            /\ pc' = "render"
            /\ steps' = Append(steps, "project")
            /\ UNCHANGED fault
    /\ UNCHANGED <<shp, gdf, m, fs, written>>

\* Lines 44-107: the map centre (NaN for no geometry, which folium.Map
\* rejects at line 47), the two layers (to_json raises at line 61 on
\* duplicated column labels, the map already made), the labels and the
\* layer control.
Render ==
    /\ pc = "render"
    /\ IF block6_gdf.rows = <<>>
       THEN /\ Raise("render", "ValueError")
            /\ UNCHANGED m
       ELSE IF ~ColumnsUnique(other_gdf)
       THEN /\ Raise("render", "ValueError")
            /\ m' = [NoMap EXCEPT !.location = <<UnionCentroid(block6_gdf)[2],
                                                 UnionCentroid(block6_gdf)[1],
                                                 UnionCentroid(block6_gdf)[3]>>]
       ELSE /\ m' = [location |-> <<UnionCentroid(block6_gdf)[2],
                                    UnionCentroid(block6_gdf)[1],
                                    UnionCentroid(block6_gdf)[3]>>,
                     other |-> Features(other_gdf),
                     block6 |-> Features(block6_gdf),
                     labels |-> Labels(block6_gdf)]
            /\ pc' = "save"
            /\ steps' = Append(steps, "render")
            /\ UNCHANGED fault
    /\ UNCHANGED <<shp, gdf, gdf_clean, block6_gdf, other_gdf, fs, written>>

\* Lines 110-112: m.save renders the map and writes the document.  At
\* render time each tooltip checks its fields against the first feature of
\* its layer; on a layer without features that check passes or raises
\* (IndexError or AssertionError), depending on the folium release.
SaveMap ==
    /\ pc = "save"
    /\ \E writable \in BOOLEAN, onEmpty \in {"", "IndexError", "AssertionError"} :
        IF ~(TooltipFieldsOk(m.other, {"Ward_No"})
             /\ TooltipFieldsOk(m.block6, {"Ward_No", "Population"}))
        THEN /\ Raise("save", "AssertionError")
             /\ UNCHANGED <<fs, written>>
        ELSE IF (m.other = <<>> \/ m.block6 = <<>>) /\ onEmpty # ""
        THEN /\ Raise("save", onEmpty)
             /\ UNCHANGED <<fs, written>>
        ELSE IF ~writable
        THEN /\ Raise("save", "OSError")
             /\ UNCHANGED <<fs, written>>
        ELSE /\ fs' = [fs EXCEPT !.map = m]
             /\ written' = Append(written, "map")
             /\ pc' = "export_geojson"
             /\ steps' = Append(steps, "save")
             /\ UNCHANGED fault
    /\ UNCHANGED <<shp, gdf, gdf_clean, block6_gdf, other_gdf, m>>

\* Lines 116-118: the highlighted subset as GeoJSON.
ExportGeoJSON ==
    /\ pc = "export_geojson"
    /\ \E writable \in BOOLEAN :
        IF writable
        THEN /\ fs' = [fs EXCEPT !.geojson = to_file(block6_gdf)]
             /\ written' = Append(written, "geojson")
             /\ pc' = "export_shp"
             /\ steps' = Append(steps, "export_geojson")
             /\ UNCHANGED fault
        ELSE /\ Raise("export_geojson", "DataSourceError")
             /\ UNCHANGED <<fs, written>>
    /\ UNCHANGED <<shp, gdf, gdf_clean, block6_gdf, other_gdf, m>>

\* Lines 121-124: the folder (mkdir raises an OSError when the path is a
\* file or cannot be created), then the highlighted subset as a shapefile.
ExportShapefile ==
    /\ pc = "export_shp"
    /\ \E outcome \in {"", "OSError", "DataSourceError"} :
        IF outcome = ""
        THEN /\ fs' = [fs EXCEPT !.shp = to_file(block6_gdf)]
             /\ written' = Append(written, "shp")
             /\ pc' = "done"
             /\ steps' = Append(steps, "export_shp")
             /\ UNCHANGED fault
        ELSE /\ Raise("export_shp", outcome)
             /\ UNCHANGED <<fs, written>>
    /\ UNCHANGED <<shp, gdf, gdf_clean, block6_gdf, other_gdf, m>>

Next ==
    \/ Load
    \/ Clean
    \/ Partition
    \/ Project
    \/ Render
    \/ SaveMap
    \/ ExportGeoJSON
    \/ ExportShapefile

Spec == Init /\ [][Next]_vars

TypeOK ==
    /\ pc \in {"load", "clean", "partition", "project", "render", "save",
               "export_geojson", "export_shp", "done", "failed"}
    /\ (pc = "failed") = (fault # "")

----------------------------------------------------------------------------
\* Properties

\* The statement blocks in program order, and the file each one writes.
Order == <<"load", "clean", "partition", "project", "render", "save",
           "export_geojson", "export_shp">>

FileOrder == <<"map", "geojson", "shp">>

\* How many files the steps before the k-th have written: "save" is the
\* sixth step and the first that writes one.
FilesBefore(k) == Cardinality({i \in 1..(k - 1) : Order[i] \in {"save", "export_geojson", "export_shp"}})

\* The value a written feature holds under a property name.
Prop(feature, name) ==
    feature.properties[CHOOSE j \in 1..Len(feature.properties) :
                         feature.properties[j].name = name].v

Ran(step) == \E i \in 1..Len(steps) : steps[i] = step

FailedAt(step) == pc = "failed" /\ steps # <<>> /\ steps[Len(steps)] = step

Completed(step) == Ran(step) /\ ~FailedAt(step)

Block6Set == {429, 430, 431, 432, 433, 434}

RowSet(coll) == {coll.rows[i] : i \in 1..Len(coll.rows)}

Ward(row) == Attr(row, "Ward_No").n

Wards(rows) == [i \in 1..Len(rows) |-> Ward(rows[i])]

FeatureWards(features) ==
    [i \in 1..Len(features) |-> Prop(features[i], "Ward_No").n]

\* C1: after the Partitioner every record of the cleaned collection is in
\* exactly one of block6_gdf and other_gdf: the subsets share no record,
\* their union is the cleaned collection and their sizes sum to its size.
C1_PartitionExhaustiveDisjoint ==
    Completed("partition") =>
        /\ RowSet(block6_gdf) \cap RowSet(other_gdf) = {}
        /\ RowSet(block6_gdf) \cup RowSet(other_gdf) = RowSet(gdf_clean)
        /\ Len(block6_gdf.rows) + Len(other_gdf.rows) = Len(gdf_clean.rows)
        /\ \A i \in 1..Len(gdf_clean.rows) :
            Cardinality({j \in 1..Len(block6_gdf.rows) :
                            block6_gdf.rows[j] = gdf_clean.rows[i]})
            + Cardinality({j \in 1..Len(other_gdf.rows) :
                            other_gdf.rows[j] = gdf_clean.rows[i]}) = 1

\* C1's case: a partitioned input with a duplicated ward identifier and
\* records on both sides.
C1_Witness ==
    /\ pc = "project"
    /\ block6_gdf.rows # <<>>
    /\ other_gdf.rows # <<>>
    /\ \E i, j \in 1..Len(gdf_clean.rows) :
        i # j /\ Ward(gdf_clean.rows[i]) = Ward(gdf_clean.rows[j])

\* C2: the highlighted subset holds exactly the input records whose cleaned
\* ward identifier is one of 429..434; an absent target yields no record
\* and every other record is in the context subset.
C2_HighlightedIsTargets ==
    Completed("partition") =>
        /\ \A r \in RowSet(gdf_clean) :
            /\ r \in RowSet(block6_gdf) <=> Ward(r) \in Block6Set
            /\ r \in RowSet(other_gdf) <=> Ward(r) \notin Block6Set
        /\ RowSet(block6_gdf) \subseteq RowSet(gdf_clean)
        /\ {Ward(r) : r \in RowSet(block6_gdf)} \subseteq Block6Set
        /\ {Ward(r) : r \in RowSet(block6_gdf)}
             = {Ward(r) : r \in RowSet(gdf_clean)} \cap Block6Set
        /\ \A i \in 1..Len(gdf_clean.rows) :
            Ward(gdf_clean.rows[i]) = ToInt(Attr(shp.rows[i], "Ward_No"))

\* C2's case: two different targets present (one of them the last of the
\* list), the other targets absent, and a record that is no target.
C2_Witness ==
    /\ pc = "project"
    /\ {Ward(r) : r \in RowSet(block6_gdf)} = {429, 434}
    /\ other_gdf.rows # <<>>

\* C3 as stated: rendering and export see EPSG:4326 on all three
\* collections, and an input whose CRS is undefined or differs from
\* EPSG:4326 has been reprojected to it once the Projector has run.
C3_AllGeographicAfterProjector ==
    /\ pc \in {"render", "save", "export_geojson", "export_shp", "done"} =>
        /\ gdf_clean.crs = "EPSG:4326"
        /\ block6_gdf.crs = "EPSG:4326"
        /\ other_gdf.crs = "EPSG:4326"
    /\ (Ran("project") /\ shp.crs # "EPSG:4326") =>
        /\ gdf_clean.crs = "EPSG:4326"
        /\ block6_gdf.crs = "EPSG:4326"
        /\ other_gdf.crs = "EPSG:4326"

\* C4: after the Cleaner every record has 'Population': the values of
\* 'SUM_Final_', under the label 'Population' in that column's place, if
\* the input has that column, null otherwise; and no later step raises for
\* want of the column (the highlighted layer's tooltip finds it, as do both
\* exports).
C4_PopulationCanonical ==
    Completed("clean") =>
        /\ HasColumn(gdf_clean, "Population")
        /\ ~HasColumn(gdf_clean, "SUM_Final_")
        /\ Len(gdf_clean.rows) = Len(shp.rows)
        /\ \A i \in 1..Len(gdf_clean.rows) :
            /\ \E j \in 1..Len(gdf_clean.rows[i].attrs) :
                gdf_clean.rows[i].attrs[j].name = "Population"
            /\ IF HasColumn(shp, "SUM_Final_")
               THEN \A j \in 1..Len(shp.cols) :
                        shp.cols[j] = "SUM_Final_" =>
                            /\ gdf_clean.cols[j] = "Population"
                            /\ gdf_clean.rows[i].attrs[j]
                                 = [name |-> "Population", v |-> shp.rows[i].attrs[j].v]
               ELSE \A j \in 1..Len(gdf_clean.rows[i].attrs) :
                        gdf_clean.rows[i].attrs[j].name = "Population" =>
                            gdf_clean.rows[i].attrs[j].v.k = "None"
        /\ ~HasColumn(shp, "SUM_Final_") =>
            /\ ColumnsUnique(gdf_clean)
            /\ fault # "KeyError"
            /\ FailedAt("render") => block6_gdf.rows = <<>>
        /\ Ran("render") =>
            \A i \in 1..Len(m.block6) :
                TooltipFieldsOk(<<m.block6[i]>>, {"Ward_No", "Population"})
        /\ (FailedAt("save") /\ fault = "AssertionError") => m.other = <<>>
        /\ \A f \in {"geojson", "shp"} : \A i \in 1..Len(fs[f].features) :
            TooltipFieldsOk(<<fs[f].features[i]>>, {"Population"})

\* C4's case: an input without any population column ran to the end.
C4_Witness ==
    /\ pc = "done"
    /\ shp.cols = <<"Ward_No">>
    /\ \A i \in 1..Len(fs.geojson.features) :
        Prop(fs.geojson.features[i], "Population").k = "null"

\* C5: a failure ends the run at the failing step: the steps executed are a
\* prefix of the program order, the files written are those of the steps
\* before it, and a non-numeric ward identifier fails in the Cleaner with
\* no file written.
C5_FailureTerminates ==
    /\ Len(steps) <= Len(Order)
    /\ \A i \in 1..Len(steps) : steps[i] = Order[i]
    /\ fault # "" <=> pc = "failed"
    /\ pc = "failed" =>
        /\ steps # <<>>
        /\ written = SubSeq(FileOrder, 1, FilesBefore(Len(steps)))
        /\ \A f \in {"geojson", "shp"} :
            (\A i \in 1..Len(written) : written[i] # f) => fs[f] = NoFile
    /\ (Ran("clean") /\ HasColumn(shp, "Ward_No")
           /\ \E i \in 1..Len(shp.rows) : ~CanInt(Attr(shp.rows[i], "Ward_No"))) =>
        /\ FailedAt("clean")
        /\ fault \in {"ValueError", "TypeError"}
        /\ written = <<>>
        /\ fs = NoFiles

\* C5's case: a run that wrote the map and then failed writing the GeoJSON.
C5_Witness ==
    /\ FailedAt("export_geojson")
    /\ written = <<"map">>

\* C6: an input already in EPSG:4326 keeps its coordinates and CRS through
\* the Projector, and the Projector applied to its own output changes
\* nothing.
C6_ProjectorIdempotent ==
    Completed("project") =>
        /\ Projector(<<gdf_clean, block6_gdf, other_gdf>>)
             = <<gdf_clean, block6_gdf, other_gdf>>
        /\ shp.crs = "EPSG:4326" =>
            /\ gdf_clean.crs = shp.crs
            /\ block6_gdf.crs = shp.crs
            /\ other_gdf.crs = shp.crs
            /\ \A r \in RowSet(gdf_clean) : r.geom = shp.rows[r.idx + 1].geom
            /\ \A r \in RowSet(block6_gdf) : r.geom = shp.rows[r.idx + 1].geom
            /\ \A r \in RowSet(other_gdf) : r.geom = shp.rows[r.idx + 1].geom

\* C6's case: a projected input (not in EPSG:4326) has passed the Projector.
C6_Witness ==
    /\ pc = "render"
    /\ shp.crs = "EPSG:3857"
    /\ block6_gdf.rows # <<>>
    /\ other_gdf.rows # <<>>

\* C7: each subset is an order-preserving subsequence of the cleaned
\* collection.
C7_OrderPreserved ==
    Completed("partition") =>
        \A sub \in {block6_gdf, other_gdf} :
            /\ \A i \in 1..Len(sub.rows) : \A j \in 1..Len(sub.rows) :
                i < j => sub.rows[i].idx < sub.rows[j].idx
            /\ \A i \in 1..Len(sub.rows) :
                sub.rows[i] = gdf_clean.rows[sub.rows[i].idx + 1]

\* C7's case: two highlighted records with a context record between them.
C7_Witness ==
    /\ pc = "project"
    /\ Len(block6_gdf.rows) = 2
    /\ Len(other_gdf.rows) = 1
    /\ block6_gdf.rows[1].idx < other_gdf.rows[1].idx
    /\ other_gdf.rows[1].idx < block6_gdf.rows[2].idx
    /\ Ward(block6_gdf.rows[1]) > Ward(block6_gdf.rows[2])

C9_Frame ==
    /\ pc = "partition" => gdf_clean' = gdf_clean
    /\ pc \in {"render", "save", "export_geojson", "export_shp"} =>
        UNCHANGED <<gdf_clean, block6_gdf, other_gdf>>

C9_SameRecords ==
    /\ Completed("partition") /\ pc = "project" =>
        gdf_clean = CleanPopulation(astype_int(shp, "Ward_No"))
    /\ Completed("render") =>
        /\ m.block6 = Features(block6_gdf)
        /\ Len(m.labels) = Len(block6_gdf.rows)
        /\ \A i \in 1..Len(m.labels) :
            /\ m.labels[i].text = Ward(block6_gdf.rows[i])
            /\ m.labels[i].at = <<block6_gdf.rows[i].geom[2], block6_gdf.rows[i].geom[1]>>
    /\ Completed("export_geojson") =>
        /\ fs.geojson.features = m.block6
        /\ \A i \in 1..Len(fs.geojson.features) : \A r \in RowSet(other_gdf) :
            fs.geojson.features[i].geometry # r.geom
    /\ Completed("export_shp") =>
        /\ fs.shp.features = m.block6
        /\ FeatureWards(fs.shp.features) = [i \in 1..Len(m.labels) |-> m.labels[i].text]
        /\ \A i \in 1..Len(fs.shp.features) : \A r \in RowSet(other_gdf) :
            fs.shp.features[i].geometry # r.geom

\* C9: partitioning leaves the cleaned collection unchanged, no collection
\* changes from the map centre on, and the highlighted layer, the labels
\* (one per highlighted record, showing its ward identifier) and both
\* exported files hold the same highlighted records and no context record.
C9_NoMutationSameRecords == []C9_SameRecords /\ [][C9_Frame]_vars

\* C9's case: a finished run with highlighted and context records, two of
\* the highlighted ones sharing a ward identifier.
C9_Witness ==
    /\ pc = "done"
    /\ Len(block6_gdf.rows) = 2
    /\ Ward(block6_gdf.rows[1]) = Ward(block6_gdf.rows[2])
    /\ other_gdf.rows # <<>>

AllNumeric(coll) ==
    /\ HasColumn(coll, "Ward_No")
    /\ \A i \in 1..Len(coll.rows) : CanInt(Attr(coll.rows[i], "Ward_No"))

\* C10 as stated: a readable input with numeric ward identifiers and a
\* defined CRS, its highlighted subset empty or not, never fails in a step
\* of the script itself (only on an unwritable output), and a finished run
\* has executed every step once in order and written the map, the GeoJSON
\* file and the shapefile in that order.
C10_RunsToCompletion ==
    /\ (Completed("load") /\ AllNumeric(shp) /\ shp.crs # "none" /\ pc = "failed") =>
        fault \in {"OSError", "DataSourceError"}
    /\ pc = "done" => steps = Order /\ written = FileOrder

====
